---- MODULE Spec2Model ----
EXTENDS Integers, Naturals, Sequences, FiniteSets, TLC

(***************************************************************************)
(* Model of the ETL orchestration engine (core/pipeline.py, ETLEngine):   *)
(* run(), run_signal(name), the extraction cache and _make_hashable_key.  *)
(* Collaborators (extractors, transformers, loaders, the secrets manager, *)
(* dynamic imports) are modelled by the outcomes they can produce.        *)
(***************************************************************************)

\* ---------------------------------------------------------------------
\* Python values of the parameter mappings (as produced by yaml.safe_load)
\* ---------------------------------------------------------------------
S(x) == [t |-> "str", v |-> x]
I(n) == [t |-> "int", v |-> n]
NoneV == [t |-> "none", v |-> "None"]
O(x) == [t |-> "obj", v |-> x]
D(items) == [t |-> "dict", v |-> items]
L(es) == [t |-> "list", v |-> es]
Raise == [t |-> "raise", v |-> "TypeError"]
Bo(b) == [t |-> "bool", v |-> b]
\* a float with an integral value n (n.0)
F(n) == [t |-> "float", v |-> n]

\* code points of the one-character string keys used below
CharCode == [c \in {"a", "b", "c", "k", "x", "y"} |->
               CASE c = "a" -> 97 [] c = "b" -> 98 [] c = "c" -> 99
                 [] c = "k" -> 107 [] c = "x" -> 120 [] c = "y" -> 121]

\* numeric value of a bool, int or float (True == 1, False == 0)
NumVal(k) == IF k.t = "bool" THEN (IF k.v THEN 1 ELSE 0) ELSE k.v

\* Python '<' between two dict keys (only called on comparable keys):
\* strings by code point, bool/int/float by numeric value
KeyLess(k1, k2) ==
  CASE k1.t = "str" /\ k2.t = "str" -> CharCode[k1.v] < CharCode[k2.v]
    [] k1.t \in {"int", "float", "bool"} /\ k2.t \in {"int", "float", "bool"} ->
         NumVal(k1) < NumVal(k2)
    [] OTHER -> FALSE

\* sorted() of (key, value) pairs with distinct keys compares keys only and
\* raises TypeError unless they are mutually comparable: all str, or all
\* bool/int/float (None is comparable with nothing)
KeysComparable(ks) ==
  Len(ks) <= 1 \/
  (\A i \in 1..Len(ks) : ks[i].t = "str") \/
  (\A i \in 1..Len(ks) : ks[i].t \in {"int", "float", "bool"})

\* Python == between two keys, as used by the cache_key lookup in the
\* extractor_cache dict (lines 188-190): bool, int and float compare by
\* numeric value (True == 1 == 1.0), tuples element by element
RECURSIVE PyEq(_, _)
PyEq(k1, k2) ==
  IF k1.t \in {"int", "bool", "float"} /\ k2.t \in {"int", "bool", "float"}
  THEN NumVal(k1) = NumVal(k2)
  ELSE IF k1.t # k2.t THEN FALSE
  ELSE IF k1.t = "tuple"
       THEN Len(k1.v) = Len(k2.v) /\ \A i \in 1..Len(k1.v) : PyEq(k1.v[i], k2.v[i])
  ELSE k1 = k2

\* json.dumps(params, sort_keys=True) fails on unsortable keys and on
\* non-serialisable objects
RECURSIVE JsonBad(_)
JsonBad(p) ==
  CASE p.t = "dict" -> ~KeysComparable([i \in 1..Len(p.v) |-> p.v[i][1]])
                       \/ \E i \in 1..Len(p.v) : JsonBad(p.v[i][2])
    [] p.t = "list" -> \E i \in 1..Len(p.v) : JsonBad(p.v[i])
    [] p.t = "obj"  -> TRUE
    [] OTHER        -> FALSE

RECURSIVE JsonText(_)
JsonSeqText(s, sep) ==
  LET RECURSIVE J(_)
      J(i) == IF i > Len(s) THEN ""
              ELSE (IF i = 1 THEN "" ELSE sep) \o s[i] \o J(i + 1)
  IN J(1)
SortIdx(ks) ==
  [i \in 1..Len(ks) |->
     CHOOSE j \in 1..Len(ks) :
       Cardinality({l \in 1..Len(ks) : KeyLess(ks[l], ks[j])}) = i - 1]
JsonText(p) ==
  CASE p.t = "str"  -> "\"" \o p.v \o "\""
    [] p.t = "int"  -> ToString(p.v)
    [] p.t = "none" -> "null"
    [] p.t = "bool" -> IF p.v THEN "true" ELSE "false"
    [] p.t = "float" -> ToString(p.v) \o ".0"
    [] p.t = "list" -> "[" \o JsonSeqText([i \in 1..Len(p.v) |-> JsonText(p.v[i])], ", ") \o "]"
    [] p.t = "dict" ->
         LET ks == [i \in 1..Len(p.v) |-> p.v[i][1]]
             o == SortIdx(ks)
         IN "{" \o JsonSeqText([i \in 1..Len(p.v) |->
                     JsonText(S(IF ks[o[i]].t = "str" THEN ks[o[i]].v ELSE JsonText(ks[o[i]])))
                     \o ": " \o JsonText(p.v[o[i]][2])], ", ") \o "}"

JsonDumps(p) == IF JsonBad(p) THEN Raise ELSE S(JsonText(p))

\* _make_hashable_key: dicts -> sorted tuple of (key, normalised value),
\* falling back to json.dumps on TypeError; lists -> tuple; primitives
\* unchanged; anything else str(). A TypeError propagates as Raise.
RECURSIVE MakeHashableKey(_)
MakeHashableKey(p) ==
  CASE p.t = "dict" ->
         LET n == Len(p.v)
             ks == [i \in 1..n |-> p.v[i][1]]
             kids == [i \in 1..n |-> MakeHashableKey(p.v[i][2])]
         IN IF (\E i \in 1..n : kids[i].t = "raise") \/ ~KeysComparable(ks)
            THEN JsonDumps(p)
            ELSE LET o == SortIdx(ks)
                 IN [t |-> "tuple",
                     v |-> [i \in 1..n |-> [t |-> "tuple", v |-> <<ks[o[i]], kids[o[i]]>>]]]
    [] p.t = "list" ->
         LET kids == [i \in 1..Len(p.v) |-> MakeHashableKey(p.v[i])]
         IN IF \E i \in 1..Len(p.v) : kids[i].t = "raise" THEN Raise
            ELSE [t |-> "tuple", v |-> kids]
    [] p.t \in {"str", "int", "float", "bool", "none"} -> p
    [] OTHER -> S("<object " \o p.v \o ">")

\* ---------------------------------------------------------------------
\* Configuration (signals.yaml after _process_env_vars) and plugin tables
\* ---------------------------------------------------------------------
NumSignals == 2
MaxInv == 2
SigName == [i \in 1..NumSignals |-> "s" \o ToString(i)]

ExtractorMapNames == {"fred_extractor", "alternative_extractor",
                      "coingecko_extractor", "alternative_global_extractor"}
TransformerMapNames == {"m2_transformer", "fear_greed_transformer",
                        "bitcoin_price_transformer", "total_market_cap_transformer",
                        "bitcoin_24h_change_transformer", "bitcoin_7d_change_transformer",
                        "bitcoin_30d_change_transformer", "bitcoin_market_cap_transformer",
                        "bitcoin_24h_volume_transformer"}

\* parameter mappings a signal's extractor_params can hold
ParamValue(n) ==
  CASE n = "PA" -> D(<< <<S("a"), S("x")>>, <<S("b"), L(<<I(1), S("y")>>)>> >>)
    [] n = "PB" -> D(<< <<S("b"), L(<<I(1), S("y")>>)>>, <<S("a"), S("x")>> >>)
    [] n = "PC" -> D(<< <<S("a"), S("x")>>, <<I(1), S("y")>> >>)
ParamNames == {"PA", "PB", "PC"}
\* extractor_params[param_name] = secrets[secret_name] for the mapping
\* {k: K}: a new key is appended, an existing one overwritten
SecretParam == "k"
SecretValue == "secret"
WithSecret(p) ==
  IF \E i \in 1..Len(p.v) : p.v[i][1] = S(SecretParam)
  THEN D([i \in 1..Len(p.v) |-> IF p.v[i][1] = S(SecretParam)
                                THEN <<S(SecretParam), S(SecretValue)>> ELSE p.v[i]])
  ELSE D(p.v \o << <<S(SecretParam), S(SecretValue)>> >>)
ExtParamValue(x) == IF x[2] THEN WithSecret(ParamValue(x[1])) ELSE ParamValue(x[1])
\* the cache-key part _make_hashable_key(extractor_params) of each mapping,
\* without or with the secret merged in
ParamKey == [x \in ParamNames \X BOOLEAN |-> MakeHashableKey(ExtParamValue(x))]
\* params of the module/class extractor spec (extractor_def["params"])
DictExtParams == "PA"
\* module/class extractor specs: FredExtractor, and the
\* DirectNitterTwitterExtractor that run_direct_nitter_etl.py (line 31) imports
\* from etl.extract.direct_nitter_twitter_extractor
DictExtForms == {"dict", "dict_nitter"}
DictExtModule(e) ==
  IF e = "dict_nitter" THEN "etl.extract.direct_nitter_twitter_extractor"
  ELSE "etl.extract.fred_extractor"
DictExtClass(e) ==
  IF e = "dict_nitter" THEN "DirectNitterTwitterExtractor" ELSE "FredExtractor"
\* fetch() returns {"tweets": [...]} with username and text per tweet and no
\* content key (the "DirectNitterTwitterExtractor format" of
\* twitter_sentiment_transformer.py 170-183; run_direct_nitter_etl.py 95)
ReturnsTweetList(c) == c.ext = "dict_nitter"

\* the default loader list of run()/run_signal()
DefaultLoaders == << [kind |-> "type", name |-> "supabase_loader", table |-> "financial_signals"] >>
\* loader lists a signal can configure ("missing": no loaders key)
ConfiguredLoaders(l) ==
  CASE l = "empty" -> << >>
    [] l = "two" -> << [kind |-> "type", name |-> "supabase_loader", table |-> ""],
                       [kind |-> "type", name |-> "file_loader", table |-> ""] >>
    [] l = "google" -> << [kind |-> "type", name |-> "google_sheets_loader", table |-> ""],
                          [kind |-> "type", name |-> "file_loader", table |-> ""] >>
    [] l = "modtype" -> << [kind |-> "module", name |-> "file_loader", table |-> ""],
                           [kind |-> "type", name |-> "file_loader", table |-> ""] >>
    [] l = "conv" -> << [kind |-> "module", name |-> "tweet_metrics_loader", table |-> ""],
                        [kind |-> "type", name |-> "tweet_metrics_loader", table |-> ""] >>
    [] l = "modsupa" -> << [kind |-> "module", name |-> "supabase_loader", table |-> ""],
                           [kind |-> "type", name |-> "supabase_loader", table |-> ""] >>
\* signal_config.get("loaders", default_loaders)
LoaderConfigs(l) ==
  IF l = "missing" THEN DefaultLoaders ELSE ConfiguredLoaders(l)

\* secrets / secret_mapping of a signal: "none": neither; "declared":
\* secrets [K] and secret_mapping {k: K}; "mappedOnly": secret_mapping
\* {k: K} without K among the secrets
SecretForms == {"none", "declared", "mappedOnly"}
\* transformer specs: a short name, a module/class object, a list whose
\* first element is a module/class object or a short name (m2_transformer)
TransformerForms == {"m2_transformer", "nope_transformer", "dict", "list_dict", "list_name"}
\* module/class transformer specs: "dict_sentiment" names
\* etl.transform.twitter_sentiment_transformer.TwitterSentimentTransformer
TrfDictForms == {"dict", "list_dict", "dict_sentiment"}

SignalConfigs ==
  [ext : {"fred_extractor", "nope_extractor"} \cup DictExtForms,
   params : ParamNames,
   secret : SecretForms,
   trf : TransformerForms \cup TrfDictForms,
   tname : {"absent", "other"},
   loaders : {"missing", "empty", "two", "google", "modtype", "conv", "modsupa"}]

\* environment: whether the secret K and SUPABASE_URL are set
Envs == [K : BOOLEAN, SUPABASE_URL : BOOLEAN]

\* identity part of the cache key: (module, class, ...) or (name, ...)
ExtIdentity(c) ==
  IF c.ext \in DictExtForms THEN <<DictExtModule(c.ext), DictExtClass(c.ext)>> ELSE <<c.ext>>

\* log_etl_failure(signal_name, error) takes two arguments: a call with any
\* other number of arguments raises TypeError
LogEtlFailureArity == 2
LogEtlFailureRaises(nargs) == nargs # LogEtlFailureArity
\* run() calls it with two arguments, run_signal() with three
RunFailureArgs == 2
RunSignalFailureArgs == 3

Terminal == {"failed", "skipped", "partial", "succeeded"}
Attempt == {"ok", "ctorRaise", "fetchRaise"}

VARIABLES
  cfg,        \* self.config["signals"]: 1..NumSignals -> signal config
  cfgKeys,    \* per signal: keys written into that signal's own configuration mappings
  env,        \* os.environ: whether K and SUPABASE_URL are set
  cache,      \* self.extractor_cache: set of [key, val]
  pc,         \* "idle" | "busy"
  mode,       \* invocation in progress / last invocation: "run" | "single" | "none"
  idx,        \* index of the signal being processed
  stage,      \* "extract" | "transform" | "load"
  inv,        \* number of run()/run_signal() invocations so far
  outcome,    \* per-signal outcome in the current invocation
  cur,        \* signal the following variables describe (0: none)
  extRes,     \* extractor resolution: "none" | "resolved" | "skipped" | "raised"
  injected,   \* whether the params the extractor was built with carry the secret
  ctorCalls,  \* extractor constructions while extracting signal cur
  fetchCalls, \* extractor fetch() calls while extracting signal cur
  hitFrom,    \* invocation that wrote the cache entry signal cur was served from (0: none)
  keyLog,     \* level of signal cur's cache-key-failure log line
  trfRes,     \* transformer resolution: "none" | "resolved" | "skipped" | "raised"
  transformed, \* whether transformer.transform() was called for signal cur
  trfName,    \* signal_name in the transformer's output: "none" | "absent" | "other"
  recName,    \* signal_name of the record handed to the loaders
  lcUsed,     \* loader specs iterated for signal cur
  ldCtor,     \* per loader position of signal cur: construction outcome
  loadRes,    \* per loader position of signal cur: load() outcome
  loadSeq,    \* load() calls of signal cur in call order: loader position, record's signal_name
  outLog,     \* terminal outcome log of signal cur: "none" | "success" | "partial" | "failure"
  fetchOk,    \* results <<inv, signal, fetch no., construction no.>> of fetch() calls that returned
  raw,        \* raw_data of the signal being processed
  retVal,     \* return of the last invocation: "none" | "returned" | "true" | "false" | "raised"
  cleared,    \* whether the last extractor_cache.clear() discarded any entry
  keyIn,      \* _make_hashable_key: two parameter structures given to it
  keyOut,     \* _make_hashable_key: the keys it returned for them
  tplIn,      \* _process_env_vars: a string configuration value given to it
  tplOut,     \* _process_env_vars: the string it returned (<<"none">>: not yet)
  tplWarn,    \* warnings logged for unresolved references while processing it
  bpIn,       \* bitcoin_price run: API response, loader list, SUPABASE_URL set
  bpDone,     \* whether that run() has finished
  bpCtor,     \* its loader construction outcome per loader position
  bpLoaded    \* the records each loader position's load() received

engineVars == <<cfg, cfgKeys, env, cache, pc, mode, idx, stage, inv, outcome, cur, extRes, injected,
                ctorCalls, fetchCalls, hitFrom, keyLog, trfRes, transformed, trfName,
                recName, lcUsed, ldCtor, loadRes, loadSeq, outLog, fetchOk, raw, retVal, cleared>>
bpVars == <<bpIn, bpDone, bpCtor, bpLoaded>>
pureVars == <<keyIn, keyOut, tplIn, tplOut, tplWarn, bpVars>>
vars == <<engineVars, pureVars>>

NoLoads == [j \in 1..2 |-> "none"]
NoCtor == [j \in 1..2 |-> "none"]
NoRaw == <<0, 0, 0, 0>>

\* per-signal bookkeeping before a signal is processed
CurReset ==
  /\ cur' = 0 /\ extRes' = "none" /\ injected' = FALSE
  /\ ctorCalls' = 0 /\ fetchCalls' = 0 /\ hitFrom' = 0 /\ keyLog' = "none"
  /\ trfRes' = "none" /\ transformed' = FALSE /\ trfName' = "none" /\ recName' = "none"
  /\ lcUsed' = << >> /\ ldCtor' = NoCtor /\ loadRes' = NoLoads /\ outLog' = "none"
  /\ loadSeq' = << >>

\* the bitcoin_price scenario variables when that scenario is not run
BpIdle ==
  /\ bpIn = [resp |-> "none", loaders |-> "missing", url |-> TRUE]
  /\ bpDone = FALSE /\ bpCtor = NoCtor /\ bpLoaded = [j \in 1..2 |-> << >>]

EngineInit(configs, envs) ==
  /\ cfg \in [1..NumSignals -> configs]
  /\ cfgKeys = [i \in 1..NumSignals |-> {}]
  /\ env \in envs
  /\ cache = {}
  /\ pc = "idle"
  /\ mode = "none"
  /\ idx = 1
  /\ stage = "extract"
  /\ inv = 0
  /\ outcome = [i \in 1..NumSignals |-> "pending"]
  /\ cur = 0 /\ extRes = "none" /\ injected = FALSE
  /\ ctorCalls = 0 /\ fetchCalls = 0 /\ hitFrom = 0 /\ keyLog = "none"
  /\ trfRes = "none" /\ transformed = FALSE /\ trfName = "none" /\ recName = "none"
  /\ lcUsed = << >> /\ ldCtor = NoCtor /\ loadRes = NoLoads /\ outLog = "none"
  /\ loadSeq = << >>
  /\ fetchOk = {}
  /\ raw = NoRaw
  /\ retVal = "none"
  /\ cleared = FALSE

InitWith(configs, envs) ==
  /\ EngineInit(configs, envs)
  /\ keyIn = <<ParamValue("PA"), ParamValue("PA")>>
  /\ keyOut = <<>>
  /\ tplIn = <<>> /\ tplOut = <<"none">> /\ tplWarn = 0
  /\ BpIdle

Init == InitWith(SignalConfigs, Envs)

ResetInvocationKeepCache ==
  /\ cleared' = FALSE
  /\ cache' = cache
  /\ inv' = inv + 1
  /\ outcome' = [i \in 1..NumSignals |-> "pending"]
  /\ CurReset
  /\ fetchOk' = {}
  /\ raw' = NoRaw

\* common reset of the per-invocation bookkeeping; extractor_cache.clear()
ResetInvocation ==
  /\ cleared' = (cache # {})
  /\ cache' = {}
  /\ inv' = inv + 1
  /\ outcome' = [i \in 1..NumSignals |-> "pending"]
  /\ CurReset
  /\ fetchOk' = {}
  /\ raw' = NoRaw

\* run(): log_pipeline_start(); extractor_cache.clear(); start the loop
Run ==
  /\ pc = "idle" /\ inv < MaxInv
  /\ ResetInvocation
  /\ pc' = "busy" /\ mode' = "run" /\ idx' = 1 /\ stage' = "extract"
  /\ retVal' = "none"
  /\ UNCHANGED <<cfg, cfgKeys, env>>

\* run_signal(name) for a name absent from the configuration
RunSignalMissing ==
  /\ pc = "idle" /\ inv < MaxInv
  /\ ResetInvocation
  /\ mode' = "single" /\ retVal' = "false"
  /\ UNCHANGED <<cfg, cfgKeys, env, pc, idx, stage>>

\* run_signal(name) for a configured name
RunSignal ==
  /\ pc = "idle" /\ inv < MaxInv
  /\ \E i \in 1..NumSignals :
       /\ ResetInvocation
       /\ pc' = "busy" /\ mode' = "single" /\ idx' = i /\ stage' = "extract"
       /\ retVal' = "none"
       /\ UNCHANGED <<cfg, cfgKeys, env>>

\* an exception reaching the per-signal handler of run() (lines 351-365)
\* or of run_signal() (lines 590-605) re-raises if log_etl_failure does
FailureHandlerRaises ==
  IF mode = "run" THEN LogEtlFailureRaises(RunFailureArgs)
  ELSE LogEtlFailureRaises(RunSignalFailureArgs)

\* the terminal log line of a signal: log_etl_success (346-347), the
\* "processed but failed to load" warning (348-349), log_etl_failure in the
\* handler (364) unless that call raises; a skipped signal (continue) gets
\* only the logger.error line of the resolution failure
OutcomeLog(o) ==
  CASE o = "succeeded" -> "success"
    [] o = "partial" -> "partial"
    [] o = "failed" -> IF FailureHandlerRaises THEN "none" ELSE "failure"
    [] o = "skipped" -> "none"

FinishSignalBreak(o) ==
  /\ outcome' = [outcome EXCEPT ![idx] = o]
  /\ raw' = NoRaw
  /\ outLog' = OutcomeLog(o)
  /\ IF o = "failed" /\ FailureHandlerRaises
     THEN /\ pc' = "idle" /\ retVal' = "raised" /\ UNCHANGED <<idx, stage>>
     ELSE IF mode = "run"
     THEN IF idx < NumSignals /\ o # "failed"
          THEN /\ idx' = idx + 1 /\ stage' = "extract" /\ pc' = "busy"
               /\ retVal' = "none"
          ELSE /\ pc' = "idle" /\ retVal' = "returned" /\ UNCHANGED <<idx, stage>>
     ELSE /\ pc' = "idle" /\ UNCHANGED <<idx, stage>>
          /\ retVal' = IF o \in {"skipped", "failed"} THEN "false" ELSE "true"

LoopsOverSignalsAlways(m) == TRUE

\* run() loops over every configured signal (line 142); run_signal()
\* looks its one signal up by name and returns after it (lines 379-605)
LoopsOverSignals(m) == m = "run"

\* end of one signal's processing with the given outcome: run() moves on to
\* the next signal (or returns); run_signal() returns; an exception raised
\* by the failure handler leaves the invocation
FinishSignal(o) ==
  /\ outcome' = [outcome EXCEPT ![idx] = o]
  /\ raw' = NoRaw
  /\ outLog' = OutcomeLog(o)
  /\ IF o = "failed" /\ FailureHandlerRaises
     THEN /\ pc' = "idle" /\ retVal' = "raised" /\ UNCHANGED <<idx, stage>>
     ELSE IF LoopsOverSignals(mode)
     THEN IF idx < NumSignals
          THEN /\ idx' = idx + 1 /\ stage' = "extract" /\ pc' = "busy"
               /\ retVal' = "none"
          ELSE /\ pc' = "idle" /\ retVal' = "returned" /\ UNCHANGED <<idx, stage>>
     ELSE /\ pc' = "idle" /\ UNCHANGED <<idx, stage>>
          /\ retVal' = IF o \in {"skipped", "failed"} THEN "false" ELSE "true"

\* extractor_params used for the cache key and the constructor: the
\* module/class form keeps its own params (line 154); the short-name form
\* takes the signal's extractor_params (line 173)
ExtractorParams(c) ==
  IF c.ext \in DictExtForms THEN DictExtParams ELSE c.params

\* the secrets block (lines 172-180) sits in the short-name branch only
ResolvesSecrets(c) == c.ext \notin DictExtForms

\* get_secrets(signal_config["secrets"]) raises MissingSecretError for a
\* declared secret absent from the environment (secrets_manager.py 12-14)
GetSecretsRaises(c, e) == c.secret = "declared" /\ ~e.K

\* secret_mapping {k: K} puts the secret into extractor_params only when K
\* is among the secrets returned; otherwise a warning is logged (176-180)
Injects(c, e) == ResolvesSecrets(c) /\ c.secret = "declared" /\ e.K

CacheMissEarly(c, key, res, a1) ==
  IF a1 # "ctorRaise" THEN c \cup {[key |-> key, val |-> res]} ELSE c

\* cache miss in the try branch: extractor_class(params=...), fetch(), and
\* only then self.extractor_cache[cache_key] = raw_data (lines 196-198)
CacheMiss(c, key, res, a1) ==
  IF a1 = "ok" THEN c \cup {[key |-> key, val |-> res]} ELSE c

CopiesConfigNotLoaders(site) == site \in {"extractor", "dictExtractor"}

\* whether the mapping the engine writes into and hands to a plugin is a
\* .copy() of the configuration's own mapping: signal_config
\* ["extractor_params"] (line 173), extractor_def["params"] (154), a loader
\* spec's params (273) and config (310) are copied;
\* transformer_def.get("params", {}) (221) is passed as it is
CopiesConfig(site) == site # "transformer"

\* keys the plugins write into the params they receive: none (extractors,
\* transformers and loaders in etl/ only read self.params / self.config)
PluginParamWrites(site) == {}

\* keys reaching the configuration's own mapping when the engine writes the
\* keys w into the mapping of a site and hands it to the plugin
ConfigWrites(site, w) == IF CopiesConfig(site) THEN {} ELSE w \cup PluginParamWrites(site)

\* keys run() writes into a loader spec's params/config before construction
\* (lines 276-278, 312-314): url and key for supabase_loader; a
\* google_sheets_loader spec is skipped before its mapping is copied
LoaderParamWrites(l) == IF l.name = "supabase_loader" THEN {"url", "key"} ELSE {}

ExtractionDoneAlways(hit, fetchRet) == TRUE

\* the extraction stage yields raw_data from a cache hit or a returned
\* fetch(); otherwise the exception reaches the per-signal handler
ExtractionDone(hit, fetchRet) == hit \/ fetchRet

\* `cache_key in self.extractor_cache` (line 190): dict lookup by hash and
\* ==, so bool/int/float parts of the key match by numeric value
CacheKeyEq(k1, k2) == k1.id = k2.id /\ PyEq(k1.p, k2.p)

\* bookkeeping of the later stages, not reached yet for signal cur
LaterStagesReset ==
  /\ trfRes' = "none" /\ transformed' = FALSE /\ trfName' = "none" /\ recName' = "none"
  /\ lcUsed' = << >> /\ ldCtor' = NoCtor /\ loadRes' = NoLoads /\ loadSeq' = << >>

\* Extraction of the current signal: plugin resolution, secrets, caching
\* logic with its except-branch fallback (run lines 145-205, run_signal
\* lines 382-442). imp: import_module/getattr of the module/class form
\* returns, raises ImportError/AttributeError, or raises another error
\* (a missing module name); a1/a2: constructor and fetch() of the try
\* branch / except branch.
ExtractStep ==
  /\ pc = "busy" /\ stage = "extract"
  /\ LET c == cfg[idx]
         isDict == c.ext \in DictExtForms
     IN \E imp \in (IF isDict THEN {"ok", "ImportError", "ValueError"} ELSE {"ok"}),
           a1 \in Attempt, a2 \in Attempt :
        LET resolved == IF isDict THEN imp
                        ELSE IF c.ext \in ExtractorMapNames THEN "ok" ELSE "unknown"
            secRaise == ResolvesSecrets(c) /\ GetSecretsRaises(c, env)
            inj == Injects(c, env)
            hk == ParamKey[<<ExtractorParams(c), inj>>]
            keyOk == hk.t # "raise"
            key == [id |-> ExtIdentity(c), p |-> hk]
            hit == keyOk /\ \E e \in cache : CacheKeyEq(e.key, key)
            entry == CHOOSE e \in cache : CacheKeyEq(e.key, key)
            \* try branch, cache miss: construct, fetch, store
            tryOk == keyOk /\ ~hit /\ a1 = "ok"
            tryCtor == IF keyOk /\ ~hit THEN 1 ELSE 0
            tryFetch == IF keyOk /\ ~hit /\ a1 # "ctorRaise" THEN 1 ELSE 0
            toExcept == ~keyOk \/ (~hit /\ a1 # "ok")
            \* some fetch() returned raw_data (try branch or except branch)
            fetchRet == tryOk \/ (toExcept /\ a2 = "ok")
            exCtor == IF toExcept THEN 1 ELSE 0
            exFetch == IF toExcept /\ a2 # "ctorRaise" THEN 1 ELSE 0
            nCtor == tryCtor + exCtor
            nFetch == tryFetch + exFetch
            res == <<inv, idx, nFetch, nCtor>>
        IN /\ cur' = idx
           /\ cfgKeys' = [cfgKeys EXCEPT ![idx] =
                @ \cup ConfigWrites(IF isDict THEN "dictExtractor" ELSE "extractor",
                                    IF resolved = "ok" /\ ~secRaise /\ inj
                                    THEN {SecretParam} ELSE {})]
           /\ LaterStagesReset
           /\ extRes' = CASE resolved \in {"ImportError", "unknown"} -> "skipped"
                          [] resolved = "ValueError" -> "raised"
                          [] OTHER -> "resolved"
           /\ injected' = (resolved = "ok" /\ ~secRaise /\ inj)
           /\ IF resolved \in {"ImportError", "unknown"}
              THEN \* logger.error and continue / return False
                   /\ FinishSignal("skipped")
                   /\ ctorCalls' = 0 /\ fetchCalls' = 0 /\ hitFrom' = 0 /\ keyLog' = "none"
                   /\ UNCHANGED <<cache, fetchOk>>
              ELSE IF resolved = "ValueError" \/ secRaise
              THEN /\ FinishSignal("failed")
                   /\ ctorCalls' = 0 /\ fetchCalls' = 0 /\ hitFrom' = 0 /\ keyLog' = "none"
                   /\ UNCHANGED <<cache, fetchOk>>
              ELSE
                /\ ctorCalls' = nCtor
                /\ fetchCalls' = nFetch
                /\ keyLog' = IF toExcept THEN "error" ELSE "none"
                /\ cache' = IF keyOk /\ ~hit THEN CacheMiss(cache, key, res, a1) ELSE cache
                /\ hitFrom' = IF hit THEN entry.val[1] ELSE 0
                /\ fetchOk' = IF fetchRet THEN fetchOk \cup {res} ELSE fetchOk
                /\ IF ExtractionDone(hit, fetchRet)
                   THEN /\ raw' = IF hit THEN entry.val ELSE res
                        /\ stage' = "transform"
                        /\ outLog' = "none"
                        /\ UNCHANGED <<pc, idx, outcome, retVal>>
                   ELSE FinishSignal("failed")
  /\ UNCHANGED <<cfg, env, mode, inv, cleared>>

\* resolution of the transformer spec (lines 207-241): a short name
\* through the transformer table, a module/class object (or the first
\* element of a list) through import_module/getattr and construction.
\* imp: import and construction return, raise ImportError/AttributeError
\* (caught: continue), or raise another error (outer handler). A list whose
\* first element is a string fails at transformer_def.get("module") with
\* AttributeError outside the inner try.
TrfResolution(c, imp) ==
  CASE c.trf \in TransformerMapNames -> "resolved"
    [] c.trf \in TrfDictForms ->
         CASE imp = "ok" -> "resolved"
           [] imp = "ImportError" -> "skipped"
           [] OTHER -> "raised"
    [] c.trf = "list_name" -> "raised"
    [] OTHER -> "skipped"

CallsTransformAlways(r) == r # "raised"

\* transformer.transform(raw_data) is called only once a transformer was
\* resolved and constructed (line 244)
CallsTransform(r) == r = "resolved"

InjectSignalNameKeep(out, n) == IF out = "absent" THEN n ELSE out

\* transformed_data.update({"signal_name": signal_name}) (line 245): the
\* key is set to the signal's name whether or not the output had one
InjectSignalName(out, n) == n

\* whether transform(raw_data) writes into the raw_data object it received.
\* The transformers of the table build a fresh dict from reads of raw_data
\* (and the update of line 245 goes to that dict). TwitterSentimentTransformer
\* sets tweet['content'] = tweet['text'] on every entry of raw_data['tweets']
\* that has a username and a text but no content
\* (twitter_sentiment_transformer.py 170-183); a raw record is a sequence of
\* length 4 before that write and of length 5 after it.
TransformWritesInput(c, r) ==
  c.trf = "dict_sentiment" /\ ReturnsTweetList(c) /\ Len(r) = 4

\* raw_data after transform()
RawAfterTransform(c, r) == IF TransformWritesInput(c, r) THEN Append(r, "content") ELSE r

\* the extractor cache after transform(): the cache holds the very object
\* passed to transform() (line 198), so a write into raw_data shows in it
CacheAfterTransform(cf, c, r) ==
  {IF e.val = r THEN [e EXCEPT !.val = RawAfterTransform(cf, r)] ELSE e : e \in c}

\* Transformation (run lines 207-246, run_signal lines 444-483). tr:
\* transform() returns or raises; the config's tname says whether the
\* transformer's output has no signal_name or another value in it.
TransformStep ==
  /\ pc = "busy" /\ stage = "transform"
  /\ LET c == cfg[idx] IN
     \E imp \in (IF c.trf \in TrfDictForms
                 THEN {"ok", "ImportError", "ctorRaise"} ELSE {"ok"}),
        tr \in {"ok", "raise"} :
       LET r == TrfResolution(c, imp) IN
       /\ trfRes' = r
       \* transformer_params reach the constructor unless the import failed
       /\ cfgKeys' = [cfgKeys EXCEPT ![idx] =
            @ \cup (IF c.trf \in TrfDictForms /\ imp # "ImportError"
                    THEN ConfigWrites("transformer", {}) ELSE {})]
       /\ IF CallsTransform(r)
          THEN /\ transformed' = TRUE
               /\ IF tr = "raise"
                  THEN /\ FinishSignal("failed")
                       \* the exception may come before or after the write
                       /\ cache' \in {cache, CacheAfterTransform(c, cache, raw)}
                       /\ UNCHANGED <<trfName, recName>>
                  ELSE /\ trfName' = c.tname
                       /\ recName' = InjectSignalName(c.tname, SigName[idx])
                       /\ stage' = "load"
                       /\ raw' = RawAfterTransform(c, raw)
                       /\ cache' = CacheAfterTransform(c, cache, raw)
                       /\ UNCHANGED <<pc, idx, outcome, retVal, outLog>>
          ELSE /\ FinishSignal(IF r = "skipped" THEN "skipped" ELSE "failed")
               /\ UNCHANGED <<transformed, trfName, recName, cache>>
  /\ UNCHANGED <<cfg, env, mode, inv, cur, extRes, injected, ctorCalls, fetchCalls,
                 fetchOk, hitFrom, keyLog, lcUsed, ldCtor, loadRes, loadSeq, cleared>>

\* constructor convention of the loader classes in etl/load: SupabaseLoader
\* and FileLoader take config=, TweetMetricsLoader takes params=
LoaderConvention(name) == IF name = "tweet_metrics_loader" THEN "params" ELSE "config"

\* construction of one loader spec (lines 262-329): google_sheets_loader is
\* skipped; supabase_loader reads SUPABASE_URL and slices it for the log
\* line (None[:10] raises TypeError); the module form tries params= then
\* config= on TypeError; the type form calls config= only; li: the import
\* and the constructor otherwise return or raise. Every exception is
\* caught per loader and the loader is dropped.
LoaderCtor(l, li, e) ==
  CASE l.name = "google_sheets_loader" -> "skipped"
    [] l.name = "supabase_loader" /\ ~e.SUPABASE_URL -> "raised"
    [] l.kind = "type" /\ LoaderConvention(l.name) # "config" -> "sigMismatch"
    [] li = "raise" -> "raised"
    [] OTHER -> "built"

LoadContinuesBreak(r) == r = "ok"

\* the loading loop goes on after each load() outcome: LoadError and any
\* other exception are caught per loader (lines 335-344)
LoadContinues(r) == r \in {"ok", "LoadError", "Other"}
LoadInvoked(j, built, ld) ==
  j \in built /\ \A k \in built : k < j => LoadContinues(ld[k])

RECURSIVE LoadLoopReversed(_, _, _), LoadLoop(_, _, _)
LoadLoopReversed(bs, ld, rec) ==
  IF bs = << >> THEN << >>
  ELSE LET j == bs[Len(bs)] IN
       <<[pos |-> j, rec |-> rec]>> \o
       (IF LoadContinues(ld[j]) THEN LoadLoopReversed(SubSeq(bs, 1, Len(bs) - 1), ld, rec)
        ELSE << >>)

\* for loader in loaders: loader.load(transformed_data) (lines 332-344):
\* the constructed loaders in the order they were appended, each called
\* once with the record; the loop goes on as long as LoadContinues
LoadLoop(bs, ld, rec) ==
  IF bs = << >> THEN << >>
  ELSE <<[pos |-> Head(bs), rec |-> rec]>> \o
       (IF LoadContinues(ld[Head(bs)]) THEN LoadLoop(Tail(bs), ld, rec) ELSE << >>)

\* positions of the loader specs whose construction appended a loader
\* (line 326), in configuration order
BuiltSeq(ctor, n) == SelectSeq([j \in 1..n |-> j], LAMBDA j : ctor[j] = "built")

\* Loader construction and loading (run lines 248-349, run_signal lines
\* 485-588): signal_config.get("loaders", default_loaders); ld: each
\* constructed loader's load() returns, raises LoadError or raises another
\* exception (caught per loader).
LoadStep ==
  /\ pc = "busy" /\ stage = "load"
  /\ LET lc == LoaderConfigs(cfg[idx].loaders)
         n == Len(lc)
     IN \E li \in [1..n -> {"ok", "raise"}], ld \in [1..n -> {"ok", "LoadError", "Other"}] :
        LET ctor == [j \in 1..2 |-> IF j > n THEN "none" ELSE LoaderCtor(lc[j], li[j], env)]
            built == {j \in 1..n : ctor[j] = "built"}
            invoked == {j \in built : LoadInvoked(j, built, ld)}
            res == [j \in 1..2 |-> IF j \notin built THEN "notbuilt"
                                   ELSE IF j \in invoked THEN ld[j] ELSE "none"]
        IN /\ lcUsed' = lc
           /\ ldCtor' = ctor
           /\ loadRes' = res
           /\ loadSeq' = LoadLoop(BuiltSeq(ctor, n), ld, recName)
           /\ cfgKeys' = [cfgKeys EXCEPT ![idx] =
                @ \cup UNION {ConfigWrites(IF lc[j].kind = "module" THEN "moduleLoader"
                                           ELSE "typeLoader", LoaderParamWrites(lc[j])) :
                              j \in {k \in 1..n : ctor[k] # "skipped"}}]
           /\ FinishSignal(IF \A j \in invoked : ld[j] = "ok"
                           THEN "succeeded" ELSE "partial")
  /\ UNCHANGED <<cfg, env, cache, mode, inv, cur, extRes, injected, ctorCalls, fetchCalls,
                 fetchOk, hitFrom, keyLog, trfRes, transformed, trfName, recName, cleared>>

Next ==
  /\ \/ Run
     \/ RunSignal
     \/ RunSignalMissing
     \/ ExtractStep
     \/ TransformStep
     \/ LoadStep
  /\ UNCHANGED pureVars

Spec == Init /\ [][Next]_vars

\* configuration domains used to check the claims about the batch loop,
\* the extraction cache and the loaders
RunConfigs ==
  [ext : {"fred_extractor", "nope_extractor"}, params : {"PA"}, secret : {"none"},
   trf : {"m2_transformer"}, tname : {"absent"}, loaders : {"two"}]
  \cup [ext : {"fred_extractor"}, params : {"PA"}, secret : {"none"},
         trf : {"nope_transformer"}, tname : {"absent"}, loaders : {"two"}]
CacheConfigs ==
  [ext : {"fred_extractor"}, params : ParamNames, secret : {"none"},
   trf : {"m2_transformer"}, tname : {"absent"}, loaders : {"missing"}]
LoadConfigs ==
  [ext : {"fred_extractor"}, params : {"PA"}, secret : {"none"},
   trf : {"m2_transformer"}, tname : {"absent"}, loaders : {"two"}]
\* secrets declared or only mapped, for both extractor spec forms
SecretConfigs ==
  [ext : {"fred_extractor", "dict"}, params : {"PA"}, secret : SecretForms,
   trf : {"m2_transformer"}, tname : {"absent"}, loaders : {"empty"}]
\* resolvable and unresolvable transformer specs, and an unknown extractor
TrfConfigs ==
  [ext : {"fred_extractor"}, params : {"PA"}, secret : {"none"},
   trf : {"m2_transformer"}, tname : {"other"}, loaders : {"missing"}]
  \cup [ext : {"fred_extractor"}, params : {"PA"}, secret : {"none"},
         trf : {"nope_transformer", "dict"}, tname : {"absent"}, loaders : {"missing"}]
  \cup [ext : {"nope_extractor"}, params : {"PA"}, secret : {"none"},
         trf : {"m2_transformer"}, tname : {"absent"}, loaders : {"missing"}]
\* every transformer spec form
TrfFormConfigs ==
  [ext : {"fred_extractor"}, params : {"PA"}, secret : {"none"},
   trf : TransformerForms, tname : {"absent"}, loaders : {"empty"}]
\* every loader list
LoaderListConfigs ==
  [ext : {"fred_extractor"}, params : {"PA"}, secret : {"none"},
   trf : {"m2_transformer"}, tname : {"absent"}, loaders : {"missing", "empty", "two", "google", "modtype", "conv"}]
\* a module/class extractor returning a tweet list, with the module/class
\* TwitterSentimentTransformer or the M2 transformer
CacheTrfConfigs ==
  [ext : {"dict_nitter"}, params : {"PA"}, secret : {"none"},
   trf : {"dict_sentiment", "m2_transformer"}, tname : {"absent"}, loaders : {"missing"}]
\* secrets merged into extractor params, module/class transformer params and
\* supabase loader specs of both forms
ConfigWriteConfigs ==
  [ext : {"fred_extractor"}, params : {"PA"}, secret : {"declared"},
   trf : {"dict"}, tname : {"absent"}, loaders : {"modsupa"}]
\* resolvable and unresolvable extractor specs of both forms and transformer
\* specs of both forms, with the default loader spec
ResolveConfigs ==
  [ext : {"nope_extractor", "dict"}, params : {"PA"}, secret : {"none"},
   trf : {"m2_transformer"}, tname : {"absent"}, loaders : {"missing"}]
  \cup [ext : {"fred_extractor"}, params : {"PA"}, secret : {"none"},
         trf : {"nope_transformer", "dict"}, tname : {"absent"}, loaders : {"missing"}]
EnvOk == [K |-> TRUE, SUPABASE_URL |-> TRUE]
SpecRun == InitWith(RunConfigs, {EnvOk}) /\ [][Next]_vars
SpecCache == InitWith(CacheConfigs, {EnvOk}) /\ [][Next]_vars
SpecCacheTrf == InitWith(CacheTrfConfigs, {EnvOk}) /\ [][Next]_vars
SpecLoad == InitWith(LoadConfigs, {EnvOk}) /\ [][Next]_vars
SpecConfig == InitWith(ConfigWriteConfigs, {EnvOk}) /\ [][Next]_vars
SpecSecret == InitWith(SecretConfigs, [K : BOOLEAN, SUPABASE_URL : {TRUE}]) /\ [][Next]_vars
SpecTrf == InitWith(TrfConfigs, {EnvOk}) /\ [][Next]_vars
SpecResolve == InitWith(ResolveConfigs, {EnvOk}) /\ [][Next]_vars
SpecTrfForms == InitWith(TrfFormConfigs, {EnvOk}) /\ [][Next]_vars
SpecLoaders == InitWith(LoaderListConfigs, [K : {TRUE}, SUPABASE_URL : BOOLEAN]) /\ [][Next]_vars

\* _make_hashable_key applied to parameter structures: a structure and a
\* structurally equal one (dict items reordered at any level)
MaxDictLen == 2
KeyNames == {S("a"), S("b"), I(1), F(2), NoneV}
KeyValues ==
  {S("x"), I(1), O("o"), L(<<S("x"), I(2)>>),
   D(<< <<S("b"), I(1)>>, <<S("a"), S("x")>> >>),
   D(<< <<S("a"), I(1)>>, <<I(1), S("x")>> >>)}
Perms(n) == {f \in [1..n -> 1..n] : \A i, j \in 1..n : i # j => f[i] # f[j]}
KeyDomain ==
  UNION {{D([i \in 1..n |-> <<ks[i], vs[i]>>]) :
            ks \in {f \in [1..n -> KeyNames] : \A i, j \in 1..n : i # j => ~PyEq(f[i], f[j])},
            vs \in [1..n -> KeyValues]} : n \in 1..MaxDictLen}
RECURSIVE Reorderings(_)
Reorderings(p) ==
  CASE p.t = "dict" ->
         LET n == Len(p.v) IN
         UNION {{D([i \in 1..n |-> <<p.v[f[i]][1], kids[i]>>]) :
                   kids \in {g \in [1..n -> UNION {Reorderings(p.v[k][2]) : k \in 1..n}] :
                               \A i \in 1..n : g[i] \in Reorderings(p.v[f[i]][2])}} :
                f \in Perms(n)}
    [] p.t = "list" ->
         LET n == Len(p.v) IN
         {L(g) : g \in {h \in [1..n -> UNION {Reorderings(p.v[k]) : k \in 1..n}] :
                          \A i \in 1..n : h[i] \in Reorderings(p.v[i])}}
    [] OTHER -> {p}

KeyInit ==
  /\ EngineInit(LoadConfigs, {EnvOk})
  /\ \E p \in KeyDomain : \E q \in Reorderings(p) : keyIn = <<p, q>>
  /\ keyOut = <<>>
  /\ tplIn = <<>> /\ tplOut = <<"none">> /\ tplWarn = 0
  /\ BpIdle
ComputeKeys ==
  /\ keyOut = <<>>
  /\ keyOut' = <<MakeHashableKey(keyIn[1]), MakeHashableKey(keyIn[2])>>
  /\ UNCHANGED <<keyIn, tplIn, tplOut, tplWarn, bpVars>>
  /\ UNCHANGED engineVars
KeyNext == ComputeKeys
KeySpec == KeyInit /\ [][KeyNext]_vars

\* parameter structures of one extractor: dicts, lists of pairs, bool,
\* int and float values
SepValues ==
  {D(<< <<S("a"), I(1)>> >>), L(<< L(<<S("a"), I(1)>>) >>), L(<<S("a"), I(1)>>),
   D(<< <<S("a"), Bo(TRUE)>> >>), D(<< <<S("a"), F(1)>> >>),
   I(1), Bo(TRUE), F(1), S("1"), NoneV, L(<< >>), D(<< >>)}
SepInit ==
  /\ EngineInit(LoadConfigs, {EnvOk})
  /\ keyIn \in SepValues \X SepValues
  /\ keyOut = <<>>
  /\ tplIn = <<>> /\ tplOut = <<"none">> /\ tplWarn = 0
  /\ BpIdle
SepSpec == SepInit /\ [][KeyNext]_vars

\* _process_env_vars on a string value (lines 83-102); a string is the
\* sequence of its characters
NameChars == {"X", "Y"}
\* os.getenv: X is set to "v", every other name is unset; an unset (None)
\* or empty value fails `if env_value`
GetEnv(name) == IF name = <<"X">> THEN <<"v">> ELSE << >>

\* number of consecutive characters from position i that are spaces (\s)
\* or name characters ([A-Za-z0-9_])
RECURSIVE SpaceRun(_, _)
SpaceRun(s, i) == IF i <= Len(s) /\ s[i] = " " THEN 1 + SpaceRun(s, i + 1) ELSE 0
RECURSIVE NameRun(_, _)
NameRun(s, i) == IF i <= Len(s) /\ s[i] \in NameChars THEN 1 + NameRun(s, i + 1) ELSE 0

\* pattern1 \{\{\s*([A-Za-z0-9_]+)\s*\}\} matched at position i: its
\* length (0: no match) and its group
Match1Len(s, i) ==
  LET sp1 == SpaceRun(s, i + 2)
      n == NameRun(s, i + 2 + sp1)
      e == i + 2 + sp1 + n + SpaceRun(s, i + 2 + sp1 + n)
  IN IF /\ i + 1 <= Len(s) /\ s[i] = "{" /\ s[i + 1] = "{"
        /\ n > 0 /\ e + 1 <= Len(s) /\ s[e] = "}" /\ s[e + 1] = "}"
     THEN e + 2 - i ELSE 0
Match1Name(s, i) ==
  LET sp1 == SpaceRun(s, i + 2) IN SubSeq(s, i + 2 + sp1, i + 1 + sp1 + NameRun(s, i + 2 + sp1))
\* pattern2 \$\{([A-Za-z0-9_]+)\} matched at position i
Match2Len(s, i) ==
  LET n == NameRun(s, i + 2) IN
  IF /\ i + 1 <= Len(s) /\ s[i] = "$" /\ s[i + 1] = "{"
     /\ n > 0 /\ i + 2 + n <= Len(s) /\ s[i + 2 + n] = "}"
  THEN n + 3 ELSE 0
Match2Name(s, i) == SubSeq(s, i + 2, i + 1 + NameRun(s, i + 2))

\* re.findall: groups of the non-overlapping matches, left to right
RECURSIVE FindAll1(_, _)
FindAll1(s, i) ==
  IF i > Len(s) THEN << >>
  ELSE IF Match1Len(s, i) > 0 THEN <<Match1Name(s, i)>> \o FindAll1(s, i + Match1Len(s, i))
  ELSE FindAll1(s, i + 1)
RECURSIVE FindAll2(_, _)
FindAll2(s, i) ==
  IF i > Len(s) THEN << >>
  ELSE IF Match2Len(s, i) > 0 THEN <<Match2Name(s, i)>> \o FindAll2(s, i + Match2Len(s, i))
  ELSE FindAll2(s, i + 1)

\* str.replace(old, new): every non-overlapping occurrence, left to right
RECURSIVE ReplaceFrom(_, _, _, _)
ReplaceFrom(s, old, new, i) ==
  IF i + Len(old) - 1 > Len(s) THEN SubSeq(s, i, Len(s))
  ELSE IF SubSeq(s, i, i + Len(old) - 1) = old
       THEN new \o ReplaceFrom(s, old, new, i + Len(old))
       ELSE <<s[i]>> \o ReplaceFrom(s, old, new, i + 1)
StrReplace(s, old, new) == ReplaceFrom(s, old, new, 1)

\* the pattern1 loop: f'{{ {var_name} }}' is the text "{ NAME }" and
\* f'{{{{{var_name}}}}}' the text "{{NAME}}"
RECURSIVE ApplyBraces(_, _)
ApplyBraces(r, ms) ==
  IF ms = << >> THEN r
  ELSE LET n == Head(ms)
           v == GetEnv(n)
       IN ApplyBraces(IF v # << >>
                      THEN StrReplace(StrReplace(r, <<"{", " ">> \o n \o <<" ", "}">>, v),
                                      <<"{", "{">> \o n \o <<"}", "}">>, v)
                      ELSE r,
                      Tail(ms))
\* the pattern2 loop: f'${{{var_name}}}' is the text "${NAME}"
RECURSIVE ApplyDollar(_, _)
ApplyDollar(r, ms) ==
  IF ms = << >> THEN r
  ELSE LET n == Head(ms)
           v == GetEnv(n)
       IN ApplyDollar(IF v # << >> THEN StrReplace(r, <<"$", "{">> \o n \o <<"}">>, v) ELSE r,
                      Tail(ms))
ProcessEnvVarsStr(s) ==
  LET r1 == ApplyBraces(s, FindAll1(s, 1)) IN ApplyDollar(r1, FindAll2(r1, 1))
\* the function calls no logger: no warning for an unresolved reference
ProcessEnvVarsWarnings(s) == 0

\* string values: concatenations of up to MaxPieces template pieces
MaxPieces == 2
TplPieces ==
  {<<"{", "{", "X", "}", "}">>, <<"{", "{", " ", "X", " ", "}", "}">>,
   <<"{", "{", "X", " ", "}", "}">>, <<"{", "{", " ", " ", "X", "}", "}">>,
   <<"$", "{", "X", "}">>, <<"{", "{", "Y", "}", "}">>, <<"$", "{", "Y", "}">>,
   <<"a">>, <<"{">>, <<"$">>}
RECURSIVE Concats(_)
Concats(n) ==
  IF n = 0 THEN {<< >>}
  ELSE Concats(n - 1) \cup {p \o q : p \in TplPieces, q \in Concats(n - 1)}
TplDomain == Concats(MaxPieces) \ {<< >>}

TplInit ==
  /\ EngineInit(LoadConfigs, {EnvOk})
  /\ keyIn = <<ParamValue("PA"), ParamValue("PA")>> /\ keyOut = <<>>
  /\ tplIn \in TplDomain /\ tplOut = <<"none">> /\ tplWarn = 0
  /\ BpIdle
\* ETLEngine.__init__: self.config = self._process_env_vars(self.config)
ProcessEnvVars ==
  /\ tplOut = <<"none">>
  /\ tplOut' = ProcessEnvVarsStr(tplIn)
  /\ tplWarn' = ProcessEnvVarsWarnings(tplIn)
  /\ UNCHANGED <<keyIn, keyOut, tplIn, bpVars>>
  /\ UNCHANGED engineVars
TplNext == ProcessEnvVars
TplSpec == TplInit /\ [][TplNext]_vars

\* CoinGeckoExtractor(params={}).fetch() -> extract() (coingecko_extractor.py
\* 149-193): coin_id defaults to "bitcoin"; the simple/price response's
\* entry for the coin is returned, a response without it raises
\* ExtractionError
CoinGeckoCoinId == "bitcoin"
\* outcome of a plugin call that raised (ExtractionError, TransformationError)
Raised == [raised |-> TRUE]
CoinGeckoFetch(resp) ==
  IF CoinGeckoCoinId \in DOMAIN resp THEN resp[CoinGeckoCoinId] ELSE Raised

BitcoinPriceUnitsLower == "usd"

\* units of the record BitcoinPriceTransformer returns
BitcoinPriceUnits == "USD"

\* BitcoinPriceTransformer.transform (bitcoin_price_transformer.py 10-34):
\* unwraps a {"bitcoin": ...} dict, raises TransformationError without
\* "usd"; date is datetime.now().date()
BitcoinPriceTransform(rawData) ==
  LET d == IF "bitcoin" \in DOMAIN rawData THEN rawData["bitcoin"] ELSE rawData IN
  IF "usd" \in DOMAIN d
  THEN [date |-> "today", value |-> d["usd"], units |-> BitcoinPriceUnits,
        signal_name |-> "bitcoin_price"]
  ELSE Raised

\* transformed_data.update({"signal_name": signal_name}) on the record
InjectSignalNameRec(rec, n) == [rec EXCEPT !.signal_name = InjectSignalName(rec.signal_name, n)]

\* simple/price responses: the claim's, one with more fields, one without
\* the coin, one without a usd price
BpResponses ==
  {[bitcoin |-> [usd |-> 65000]],
   [bitcoin |-> [usd |-> 65000, usd_market_cap |-> 1000]],
   [ethereum |-> [usd |-> 3000]],
   [bitcoin |-> [eur |-> 60000]]}
BpInit ==
  /\ EngineInit(LoadConfigs, {EnvOk})
  /\ keyIn = <<ParamValue("PA"), ParamValue("PA")>> /\ keyOut = <<>>
  /\ tplIn = <<>> /\ tplOut = <<"none">> /\ tplWarn = 0
  /\ bpIn \in [resp : BpResponses, loaders : {"missing", "empty", "two", "google", "modtype", "conv"},
               url : BOOLEAN]
  /\ bpDone = FALSE /\ bpCtor = NoCtor /\ bpLoaded = [j \in 1..2 |-> << >>]

\* run() on a configuration whose only signal is bitcoin_price with
\* extractor coingecko_extractor and transformer bitcoin_price_transformer
\* (lines 142-349): extract, transform, inject signal_name, construct the
\* loaders (li) and call each constructed loader's load() (ld)
RunBitcoinPrice ==
  /\ ~bpDone
  /\ LET lc == LoaderConfigs(bpIn.loaders)
         n == Len(lc)
         e == [K |-> TRUE, SUPABASE_URL |-> bpIn.url]
         rawData == CoinGeckoFetch(bpIn.resp)
         tr == IF rawData = Raised THEN Raised ELSE BitcoinPriceTransform(rawData)
     IN \E li \in [1..n -> {"ok", "raise"}], ld \in [1..n -> {"ok", "LoadError", "Other"}] :
        LET ctor == [j \in 1..2 |-> IF j > n \/ tr = Raised THEN "none"
                                    ELSE LoaderCtor(lc[j], li[j], e)]
            built == {j \in 1..n : ctor[j] = "built"}
        IN /\ bpDone' = TRUE
           /\ bpCtor' = ctor
           /\ bpLoaded' = [j \in 1..2 |->
                             IF tr # Raised /\ LoadInvoked(j, built, ld)
                             THEN <<InjectSignalNameRec(tr, "bitcoin_price")>> ELSE << >>]
  /\ UNCHANGED <<bpIn, keyIn, keyOut, tplIn, tplOut, tplWarn>>
  /\ UNCHANGED engineVars
BpNext == RunBitcoinPrice
BpSpec == BpInit /\ [][BpNext]_vars

\* ---------------------------------------------------------------------
\* Helpers for the properties
\* ---------------------------------------------------------------------
\* structural equality of parameter structures (dict order ignored)
RECURSIVE StructEqual(_, _)
StructEqual(p, q) ==
  IF p.t # q.t THEN FALSE
  ELSE CASE p.t = "dict" ->
              /\ Len(p.v) = Len(q.v)
              /\ \A i \in 1..Len(p.v) : \E j \in 1..Len(q.v) :
                   p.v[i][1] = q.v[j][1] /\ StructEqual(p.v[i][2], q.v[j][2])
         [] p.t = "list" ->
              /\ Len(p.v) = Len(q.v)
              /\ \A i \in 1..Len(p.v) : StructEqual(p.v[i], q.v[i])
         [] OTHER -> p = q

\* structural equality of the parameter mappings, secret merged in or not
ParamsStructEqual ==
  [x \in (ParamNames \X BOOLEAN) \X (ParamNames \X BOOLEAN) |->
     StructEqual(ExtParamValue(x[1]), ExtParamValue(x[2]))]

\* the extractor_params a signal's extractor is built with
EffParams(c) == <<ExtractorParams(c), Injects(c, env)>>

\* signal i's first construction and first fetch() both returned
FirstFetchOk(i) == <<inv, i, 1, 1>> \in fetchOk

\* ---------------------------------------------------------------------
\* Claims
\* ---------------------------------------------------------------------

\* C1: run() attempts every configured signal in configured order, no
\* exception escapes it, and it returns only once every signal has reached
\* a terminal outcome (failed, skipped, partially loaded or succeeded).
C1_RunCompletesAllSignals ==
  /\ (mode = "run" /\ pc = "busy") =>
        \A j \in 1..NumSignals :
          /\ j < idx => outcome[j] \in Terminal
          /\ j > idx => outcome[j] = "pending"
  /\ (mode = "run" /\ pc = "idle") =>
        /\ retVal = "returned"
        /\ \A j \in 1..NumSignals : outcome[j] \in Terminal
C1_Witness ==
  /\ mode = "run" /\ pc = "idle" /\ retVal = "returned"
  /\ outcome[1] = "failed" /\ outcome[NumSignals] \in {"succeeded", "partial"}

\* C2: run_signal(name) never raises for a configured name: a failure in
\* any stage is caught, logged, and run_signal returns False.
C2_RunSignalNeverRaises ==
  (mode = "single" /\ pc = "idle") => retVal # "raised"

\* C3 (original): run_signal of an unconfigured name returns False and
\* leaves the extraction cache as it was.
RunSignalMissingStep ==
  pc = "idle" /\ pc' = "idle" /\ inv' = inv + 1
C3_MissingNameKeepsCache ==
  [][RunSignalMissingStep => retVal' = "false" /\ cache' = cache]_vars
\* C3 (amended): run_signal of an unconfigured name returns False without
\* raising and without touching the configuration or any signal's
\* processing, but it clears the extraction cache.
C3_MissingNameClearsCache ==
  [][RunSignalMissingStep =>
       /\ retVal' = "false"
       /\ cache' = {}
       /\ cfg' = cfg
       /\ \A j \in 1..NumSignals : outcome'[j] = "pending"]_vars
C3_Witness ==
  /\ mode = "single" /\ pc = "idle" /\ retVal = "false"
  /\ \A j \in 1..NumSignals : outcome[j] = "pending"
  /\ cleared

\* C4: within one run(), a later signal with the same
\* extractor identity and structurally equal parameters as an earlier one
\* whose fetch succeeded neither constructs nor fetches the extractor.
C4_SecondExtractionServedFromCache ==
  (mode = "run" /\ cur # 0) =>
    \A i \in 1..NumSignals :
      (/\ i < cur
       /\ ExtIdentity(cfg[i]) = ExtIdentity(cfg[cur])
       /\ ParamsStructEqual[EffParams(cfg[i]), EffParams(cfg[cur])]
       /\ FirstFetchOk(i))
      => ctorCalls = 0 /\ fetchCalls = 0

\* C5: _make_hashable_key returns identical keys for any two
\* structurally equal parameter structures, whatever the dict insertion order.
C5_KeyDeterministic ==
  keyOut # <<>> => (keyOut[1] = keyOut[2] /\ keyOut[1] # Raise)

\* signal i's parameters cannot be turned into a cache key
KeyRaises(i) == ParamKey[EffParams(cfg[i])] = Raise

\* C6: if cache-key construction raises, the extraction falls back to an
\* uncached fetch, no cache entry is written, and the failure is logged as
\* a warning, not an error.
C6_KeyFailureLoggedAsWarning ==
  (cur # 0 /\ KeyRaises(cur) /\ ctorCalls > 0) =>
    /\ keyLog = "warning"
    /\ ~\E e \in cache : e.val[2] = cur

\* C7: one processing of a signal constructs the extractor at most once and
\* calls fetch() at most once.
C7_NoExtractionRetry ==
  ctorCalls <= 1 /\ fetchCalls <= 1

\* C8: every cache entry holds the result of a fetch() that returned
\* normally during the current invocation.
C8_CacheHoldsReturnedFetches ==
  \A e \in cache : e.val \in fetchOk /\ e.val[1] = inv
C8_Witness ==
  /\ cache # {}
  /\ cur # 0 /\ outcome[cur] = "failed" /\ fetchCalls >= 1

\* C9: no extraction is served from a cache entry written by an earlier
\* run()/run_signal() invocation.
C9_NoCrossInvocationHit ==
  hitFrom \in {0, inv}
C9_Witness ==
  /\ inv >= 2 /\ cleared
  /\ hitFrom = inv

\* C10: with two constructed loaders of which one raises LoadError, the
\* other loader's load() is still invoked and the signal ends processed but
\* not fully loaded.
C10_LoadErrorDoesNotBlockOtherLoader ==
  (/\ cur # 0
   /\ outcome[cur] \in Terminal
   /\ Len(LoaderConfigs(cfg[cur].loaders)) = 2
   /\ \A j \in 1..2 : loadRes[j] # "notbuilt"
   /\ \E j \in 1..2 : loadRes[j] = "LoadError")
  => /\ \A j \in 1..2 : loadRes[j] \in {"ok", "LoadError", "Other"}
     /\ outcome[cur] = "partial"
C10_Witness ==
  cur # 0 /\ outcome[cur] = "partial" /\ loadRes = <<"LoadError", "ok">>

\* C11: a signal is reported succeeded only if every configured loader
\* succeeded; a loader that is dropped at construction (import failure,
\* SUPABASE_URL unset, google_sheets_loader skipped) counts as a failure.
C11_SucceededOnlyIfAllLoadersSucceeded ==
  (cur # 0 /\ outcome[cur] = "succeeded") =>
    \A j \in 1..Len(lcUsed) : loadRes[j] = "ok"

\* C12: run_signal returns a different value for a signal whose loaders
\* all succeeded and for one that was processed but not fully loaded.
C12_RunSignalDistinguishesPartial ==
  (mode = "single" /\ pc = "idle" /\ cur # 0 /\ outcome[cur] = "partial") =>
    retVal # "true"

\* C13: a declared secret absent from the environment only causes a
\* warning: the extractor is still constructed (and may fail later).
C13_MissingSecretProceedsToExtractor ==
  (cur # 0 /\ cfg[cur].secret = "declared" /\ ~env.K /\ extRes = "resolved") =>
    ctorCalls >= 1

\* C14: secret resolution and secret_mapping merging apply to both
\* extractor spec forms: with the secret present, the extractor's params
\* carry it whether the spec is a short name or a module/class object.
C14_SecretsInjectedForBothForms ==
  (cur # 0 /\ extRes = "resolved" /\ cfg[cur].secret = "declared" /\ env.K) =>
    injected

\* C15: every record handed to a loader's load() while processing signal
\* S has signal_name S, whatever the transformer put there.
C15_LoadedRecordsCarrySignalName ==
  (cur # 0 /\ \E j \in 1..2 : loadRes[j] \in {"ok", "LoadError", "Other"}) =>
    recName = SigName[cur]
C15_Witness ==
  /\ cur # 0 /\ trfName = "other"
  /\ \E j \in 1..2 : loadRes[j] \in {"ok", "LoadError", "Other"}

\* an extractor or transformer spec of signal cur failed to resolve
ResolutionFailed ==
  extRes \in {"skipped", "raised"} \/ trfRes \in {"skipped", "raised"}

\* some loader spec of signal cur failed at _load_plugin / import_module /
\* getattr or its constructor (li = "raise" in LoaderCtor)
LoaderResolutionFailed == \E j \in 1..2 : ldCtor[j] = "raised"

\* C16: a resolution failure of an extractor, transformer or loader spec
\* (unknown name, failed import, missing class) is scoped to its signal:
\* after an extractor or transformer failure there is no transform and no
\* loader for it and the signal ends skipped or failed; a failed loader is
\* dropped and the signal still ends loaded; nothing escapes run(), and
\* run() goes on to the next signal.
C16_ResolutionFailureScopedToSignal ==
  /\ (cur # 0 /\ ResolutionFailed) =>
       /\ ~transformed
       /\ ldCtor = NoCtor /\ loadRes = NoLoads
       /\ outcome[cur] \in {"skipped", "failed"}
       /\ (mode = "run" => retVal # "raised")
       /\ ((mode = "run" /\ cur < NumSignals) => (pc = "busy" /\ idx = cur + 1))
  /\ (cur # 0 /\ LoaderResolutionFailed) =>
       /\ outcome[cur] \in {"succeeded", "partial"}
       /\ (mode = "run" => retVal # "raised")
       /\ ((mode = "run" /\ cur < NumSignals) => (pc = "busy" /\ idx = cur + 1))
C16_Witness ==
  /\ mode = "run" /\ cur = 1 /\ cfg[1].ext = "dict" /\ extRes = "skipped"
  /\ pc = "busy" /\ idx = 2

\* C17: with no loaders configured (no loaders key or an empty list) the
\* engine uses the one default loader spec.
C17_DefaultLoaderWhenNoneConfigured ==
  (cur # 0 /\ cfg[cur].loaders \in {"missing", "empty"}
   /\ outcome[cur] \in {"succeeded", "partial"}) =>
    lcUsed = DefaultLoaders

\* C18: a list whose first element is a short transformer name resolves
\* through the transformer table like the bare short name does.
C18_ListShortNameResolves ==
  (cur # 0 /\ cfg[cur].trf \in {"m2_transformer", "list_name"} /\ trfRes # "none") =>
    trfRes = "resolved"

\* C19: for both loader spec forms a construction-signature mismatch is
\* retried with the other convention, so no loader is dropped for it.
C19_LoaderConventionRetried ==
  cur # 0 => \A j \in 1..2 : ldCtor[j] # "sigMismatch"

\* C20: every signal processed by run() ends with one terminal outcome log:
\* success, not fully loaded, or log_etl_failure, the latter also for a
\* signal skipped for an unresolved extractor or transformer.
C20_TerminalOutcomeLogged ==
  (mode = "run" /\ cur # 0 /\ outcome[cur] \in Terminal) =>
    /\ outLog # "none"
    /\ (outcome[cur] = "partial" => outLog = "partial")
    /\ (outcome[cur] \in {"skipped", "failed"} => outLog = "failure")

\* C21: signals are processed one at a time in configured order; within a
\* signal, extraction (a returned fetch() or a cache hit) comes before the
\* transform, the transform and signal_name injection before the loads,
\* and signal i reaches its terminal outcome before signal i+1 starts.
C21_StagesInOrder ==
  [][/\ (stage = "extract" /\ stage' = "transform") =>
          /\ idx' = idx /\ cur' = idx /\ extRes' = "resolved"
          /\ (fetchOk' # fetchOk \/ hitFrom' # 0)
     /\ (stage # "load" /\ stage' = "load") =>
          /\ stage = "transform" /\ idx' = idx
          /\ transformed' /\ recName' = SigName[idx]
     /\ (pc = "busy" /\ stage = "load" /\ outcome' # outcome) =>
          /\ cur = idx /\ extRes = "resolved" /\ transformed /\ recName = SigName[idx]
          /\ outcome'[idx] \in {"succeeded", "partial"}
     /\ (mode = "run" /\ pc = "busy" /\ inv' = inv /\ idx' # idx) =>
          /\ idx' = idx + 1
          /\ outcome'[idx] \in Terminal
          /\ outcome'[idx'] = "pending"]_vars
C21_Witness ==
  /\ mode = "run" /\ cur = NumSignals
  /\ outcome[1] \in Terminal
  /\ \E j \in 1..2 : loadRes[j] \in {"ok", "LoadError", "Other"}

\* exit code of main() (src/main.py 25-49) once engine.run() or
\* engine.run_signal(name) has finished: 0 when it returned, whatever it
\* returned; 1 when an exception escaped it (except Exception)
MainExitCode == IF retVal = "raised" THEN 1 ELSE 0

\* C22: the CLI exits with 0 whenever the run loop completes, also when
\* signals failed, including run_signal on a failing signal.
C22_CliExitsZeroWhenLoopCompletes ==
  (pc = "idle" /\ mode \in {"run", "single"} /\ cur # 0 /\ outcome[cur] \in Terminal) =>
    MainExitCode = 0

\* a string value with every {{ NAME }} (any whitespace the pattern
\* allows) or ${NAME} reference whose variable is set replaced by its value
\* and every other reference kept, scanning left to right
RECURSIVE TemplateSubst(_, _)
TemplateSubst(s, i) ==
  IF i > Len(s) THEN << >>
  ELSE IF Match1Len(s, i) > 0
       THEN (IF GetEnv(Match1Name(s, i)) # << >> THEN GetEnv(Match1Name(s, i))
             ELSE SubSeq(s, i, i + Match1Len(s, i) - 1))
            \o TemplateSubst(s, i + Match1Len(s, i))
  ELSE IF Match2Len(s, i) > 0
       THEN (IF GetEnv(Match2Name(s, i)) # << >> THEN GetEnv(Match2Name(s, i))
             ELSE SubSeq(s, i, i + Match2Len(s, i) - 1))
            \o TemplateSubst(s, i + Match2Len(s, i))
  ELSE <<s[i]>> \o TemplateSubst(s, i + 1)
\* number of references in a string value whose variable is unset
RECURSIVE UnresolvedRefs(_, _)
UnresolvedRefs(s, i) ==
  IF i > Len(s) THEN 0
  ELSE IF Match1Len(s, i) > 0
       THEN (IF GetEnv(Match1Name(s, i)) = << >> THEN 1 ELSE 0)
            + UnresolvedRefs(s, i + Match1Len(s, i))
  ELSE IF Match2Len(s, i) > 0
       THEN (IF GetEnv(Match2Name(s, i)) = << >> THEN 1 ELSE 0)
            + UnresolvedRefs(s, i + Match2Len(s, i))
  ELSE UnresolvedRefs(s, i + 1)

\* C23: every {{NAME}} / {{ NAME }} / ${NAME} reference whose variable is
\* set is replaced by its value, whatever whitespace the {{ }} pattern
\* allows; unresolved references are kept and one warning is logged each.
C23_EnvTemplatesResolved ==
  tplOut # <<"none">> =>
    /\ tplOut = TemplateSubst(tplIn, 1)
    /\ tplWarn = UnresolvedRefs(tplIn, 1)

\* C24 (original): in the bitcoin_price scenario with the API returning
\* {"bitcoin": {"usd": 65000}}, each configured loader receives exactly one
\* record, with value 65000, units "USD" and signal_name "bitcoin_price".
C24_EachConfiguredLoaderGetsRecord ==
  (bpDone /\ bpIn.resp = [bitcoin |-> [usd |-> 65000]]) =>
    \A j \in 1..Len(LoaderConfigs(bpIn.loaders)) :
      bpLoaded[j] = <<[date |-> "today", value |-> 65000, units |-> "USD",
                       signal_name |-> "bitcoin_price"]>>
\* C24 (amended): the same for each configured loader that was constructed;
\* a skipped (google_sheets_loader) or failed construction receives nothing.
C24_BitcoinPriceRecord ==
  (bpDone /\ bpIn.resp = [bitcoin |-> [usd |-> 65000]]) =>
    \A j \in 1..2 :
      bpCtor[j] = "built" =>
        /\ Len(bpLoaded[j]) = 1
        /\ bpLoaded[j][1].value = 65000
        /\ bpLoaded[j][1].units = "USD"
        /\ bpLoaded[j][1].signal_name = "bitcoin_price"
C24_Witness ==
  /\ bpDone /\ bpIn.resp = [bitcoin |-> [usd |-> 65000]]
  /\ bpIn.loaders = "missing" /\ bpCtor[1] = "built" /\ Len(bpLoaded[1]) = 1

\* C25: no sequence of run()/run_signal() calls modifies the signal
\* configuration.
C25_ConfigNeverModified ==
  [][cfg' = cfg /\ cfgKeys' = cfgKeys]_vars
C25_Witness ==
  /\ inv >= 2 /\ cur # 0 /\ injected
  /\ cfg[cur].trf = "dict" /\ trfRes = "resolved"
  /\ cfg[cur].loaders = "modsupa" /\ ldCtor = <<"built", "built">>

\* C26: two parameter structures that are not structurally equal (dict
\* versus list of pairs, True versus 1, 1 versus 1.0) never get cache keys
\* that compare equal.
C26_DistinctParamsDistinctKeys ==
  (keyOut # <<>> /\ keyOut[1] # Raise /\ keyOut[2] # Raise
   /\ ~StructEqual(keyIn[1], keyIn[2])) =>
    ~PyEq(keyOut[1], keyOut[2])

\* C27: on a cache hit the RawRecord handed to the transformer is the value
\* some extractor fetch() returned, not altered by an earlier signal's
\* transform() or signal_name injection
C27_CacheHitUnaltered ==
  (pc = "busy" /\ cur # 0 /\ hitFrom # 0 /\ stage = "transform") => raw \in fetchOk

\* C28: during one signal's processing each constructed loader's load() is
\* called exactly once, in configuration order, with the transformed
\* record carrying the injected signal_name
C28_LoadsOncePerLoaderInOrder ==
  (cur # 0 /\ loadSeq # << >>) =>
    /\ transformed
    /\ [k \in 1..Len(loadSeq) |-> loadSeq[k].pos] = BuiltSeq(ldCtor, Len(lcUsed))
    /\ \A k \in 1..Len(loadSeq) : loadSeq[k].rec = SigName[cur]

C28_Witness ==
  /\ cur # 0 /\ Len(loadSeq) = 2
  /\ loadSeq[1].pos = 1 /\ loadSeq[2].pos = 2

\* C29: run_signal(name) processes only the named signal: no other
\* signal's extractor, transformer or loaders are reached
C29_RunSignalOnlyNamed ==
  mode = "single" =>
    /\ cur \in {0, idx}
    /\ \A j \in 1..NumSignals : j # idx => outcome[j] = "pending"

C29_Witness ==
  /\ mode = "single" /\ pc = "idle" /\ idx = 1
  /\ outcome[1] = "succeeded" /\ cur = 1

====
